---- MODULE Spec2Model ----
(***************************************************************************)
(* The Dex renderer of pkg/render/dex.go as a state machine: one renderer  *)
(* instance (dexComponent), the Component facade operations on it, and the *)
(* return value of the most recent operation.                               *)
(*                                                                         *)
(* Text that the code inspects or formats (the manager URI, the redirect   *)
(* URIs, error messages) is a sequence of one-character strings, so that   *)
(* strings.Contains, strings.Join and the fmt verbs are computed as the Go *)
(* library computes them.  Names and images are plain strings.             *)
(***************************************************************************)
EXTENDS Naturals, Sequences, FiniteSets, TLC

VARIABLES c, backing, ret, lastResolve, imageBefore, firstObjects, nObjects

vars == <<c, backing, ret, lastResolve, imageBefore, firstObjects, nObjects>>

(***************************************************************************)
(* Bounds of the model.                                                    *)
(***************************************************************************)
\* most pull secrets handed to the constructor
MaxPullSecrets == 1
\* most secrets the identity provider requires in one namespace
MaxIdpSecrets == 1
\* most control-plane tolerations of the installation
MaxTolerations == 1
\* longest error message of a failed image lookup, in characters
MaxMsgLen == 2
\* the Objects() calls since the last ResolveImages are counted up to here
MaxCalls == 2

(***************************************************************************)
(* Constants of dex.go.                                                    *)
(***************************************************************************)
DexNamespace == "tigera-dex"
DexObjectName == "tigera-dex"
DexPort == 5556
DexCertSecretName == "tigera-dex-tls-crt"
DexTLSSecretName == "tigera-dex-tls"
DexClientId == "tigera-manager"
\* rmeta.OperatorNamespace()
OperatorNamespace == "tigera-operator"
\* rmeta.OSTypeLinux
OSTypeLinux == "linux"
\* rmeta.TolerateMaster
TolerateMaster == "TolerateMaster"
\* the package-level replica count; the deployment holds a pointer to it
replicas == "&replicas"
\* the package-level name of the environment variable holding the client secret
dexSecretEnv == "dexSecretEnv"
ProbeInitialDelaySeconds == 90
ProbePeriodSeconds == 10

(***************************************************************************)
(* String literals of dex.go and of the fmt package, as character          *)
(* sequences; the manager URIs the identity provider may report.           *)
(***************************************************************************)
RedirectLocalhostLogin == <<"h","t","t","p","s",":","/","/","l","o","c","a","l","h","o","s","t",":","9","4","4","3","/","l","o","g","i","n","/","o","i","d","c","/","c","a","l","l","b","a","c","k">>
RedirectLoopbackLogin == <<"h","t","t","p","s",":","/","/","1","2","7",".","0",".","0",".","1",":","9","4","4","3","/","l","o","g","i","n","/","o","i","d","c","/","c","a","l","l","b","a","c","k">>
RedirectLocalhostKibana == <<"h","t","t","p","s",":","/","/","l","o","c","a","l","h","o","s","t",":","9","4","4","3","/","t","i","g","e","r","a","-","k","i","b","a","n","a","/","a","p","i","/","s","e","c","u","r","i","t","y","/","o","i","d","c","/","c","a","l","l","b","a","c","k">>
RedirectLoopbackKibana == <<"h","t","t","p","s",":","/","/","1","2","7",".","0",".","0",".","1",":","9","4","4","3","/","t","i","g","e","r","a","-","k","i","b","a","n","a","/","a","p","i","/","s","e","c","u","r","i","t","y","/","o","i","d","c","/","c","a","l","l","b","a","c","k">>
LoginCallbackPath == <<"/","l","o","g","i","n","/","o","i","d","c","/","c","a","l","l","b","a","c","k">>
KibanaCallbackPath == <<"/","t","i","g","e","r","a","-","k","i","b","a","n","a","/","a","p","i","/","s","e","c","u","r","i","t","y","/","o","i","d","c","/","c","a","l","l","b","a","c","k">>
DexIssuerPath == <<"/","d","e","x">>
StrLocalhost == <<"l","o","c","a","l","h","o","s","t">>
StrLoopback == <<"1","2","7",".","0",".","0",".","1">>
FmtMissing == <<"(","M","I","S","S","I","N","G",")">>
FmtNoVerb == <<"%","!","(","N","O","V","E","R","B",")">>
URIEmpty == <<>>
URILocalhost == <<"h","t","t","p","s",":","/","/","l","o","c","a","l","h","o","s","t",":","9","4","4","3">>
URILoopback == <<"h","t","t","p","s",":","/","/","1","2","7",".","0",".","0",".","1",":","9","4","4","3">>
URIManager == <<"h","t","t","p","s",":","/","/","m","g","r",".","e","x","a","m","p","l","e",".","c","o","m">>
URIUpperCase == <<"h","t","t","p","s",":","/","/","L","O","C","A","L","H","O","S","T",":","9","4","4","3">>
URIEmbedded == <<"h","t","t","p","s",":","/","/","m","y","l","o","c","a","l","h","o","s","t",".","i","o">>

(***************************************************************************)
(* Go library functions used by dex.go.                                    *)
(***************************************************************************)
\* strings.Contains(s, substr)
Contains(s, substr) ==
    \E i \in 1..(Len(s) + 1) :
        /\ i + Len(substr) - 1 <= Len(s)
        /\ SubSeq(s, i, i + Len(substr) - 1) = substr

\* strings.Join(elems, ",")
RECURSIVE Join(_)
Join(elems) ==
    IF elems = <<>> THEN <<>>
    ELSE IF Len(elems) = 1 THEN elems[1]
    ELSE elems[1] \o <<",">> \o Join(Tail(elems))

\* fmt.Sprintf(format) with no operands: a "%%" prints one "%", a "%" followed
\* by any other character v prints "%!v(MISSING)", a trailing "%" prints
\* "%!(NOVERB)", every other character prints itself.  (The characters of the
\* model's messages are none of the fmt flags, digits, "." "*" or "[".)
RECURSIVE SprintfNoArgs(_)
SprintfNoArgs(format) ==
    IF format = <<>> THEN <<>>
    ELSE IF format[1] # "%" THEN <<format[1]>> \o SprintfNoArgs(Tail(format))
    ELSE IF Len(format) = 1 THEN FmtNoVerb
    ELSE IF format[2] = "%"
         THEN <<"%">> \o SprintfNoArgs(SubSeq(format, 3, Len(format)))
    ELSE <<"%", "!", format[2]>> \o FmtMissing
             \o SprintfNoArgs(SubSeq(format, 3, Len(format)))

\* fmt.Errorf(format): a non-nil error whose text is the formatted string
Errorf(format) == [isNil |-> FALSE, text |-> SprintfNoArgs(format)]

\* the nil error
NilError == [isNil |-> TRUE, text |-> <<>>]

\* fmt.Sprintf("%s" + suffix, s)
SprintfS(s, suffix) == s \o suffix

\* append(s, x) on a slice s = [len, cap] over the array `arr`: the elements of
\* the result, and the array afterwards.  With spare capacity the new element
\* is written into the array the caller's slice shares; without, the result
\* lives in a fresh array and `arr` is untouched.
GoAppend(s, arr, x) ==
    [elems |-> SubSeq(arr, 1, s.len) \o <<x>>,
     arr   |-> IF s.len < s.cap THEN [arr EXCEPT ![s.len + 1] = x] ELSE arr]

(***************************************************************************)
(* Collaborators of the renderer.  Their code is not part of dex.go; each  *)
(* is modelled by the contract the renderer relies on.                     *)
(***************************************************************************)
\* the nil *CertificateManagement
NilCM == "nil"

\* a corev1.Secret
Secret(name, namespace) ==
    [kind |-> "Secret", name |-> name, namespace |-> namespace, data |-> name]

\* DexConfig.RequiredSecrets(namespace): the provider's secrets, placed in the
\* namespace asked for
RequiredSecrets(d, namespace) ==
    [i \in 1..d.nSecrets[namespace] |->
        Secret("idp-secret-" \o ToString(i), namespace)]

\* DexConfig.CreateCertSecret()
CreateCertSecret(d) == d.certSecret

\* DexConfig.ManagerURI()
ManagerURI(d) == d.managerURI

\* DexConfig.Connector()
Connector(d) == d.connector

\* DexConfig.RequiredAnnotations(), RequiredEnv(prefix), RequiredVolumeMounts(),
\* RequiredVolumes(): passed through without inspection
RequiredAnnotations(d) == d.annotations
RequiredEnv(d, prefix) == [prefix |-> prefix, env |-> d.env]
RequiredVolumeMounts(d) == d.volumeMounts
RequiredVolumes(d) == d.volumes

\* secret.ToRuntimeObjects(secrets...): the same secrets as client.Objects
ToRuntimeObjects(secrets) == secrets

\* secret.CopyToNamespace(ns, secrets...): a copy of each secret, in order,
\* placed in ns
CopyToNamespace(ns, secrets) ==
    [i \in 1..Len(secrets) |-> [secrets[i] EXCEPT !.namespace = ns]]

\* secret.GetReferenceList(secrets): the secrets' names, in order
GetReferenceList(secrets) ==
    [i \in 1..Len(secrets) |-> [name |-> secrets[i].name]]

\* dns.GetServiceDNSNames(svc, ns, clusterDomain)
GetServiceDNSNames(svc, ns, clusterDomain) ==
    [svc |-> svc, namespace |-> ns, clusterDomain |-> clusterDomain]

\* CreateCSRInitContainer(...): one container asking for a certificate
CreateCSRInitContainer(cm, image, mountName, commonName, keyName, certName, dnsNames, appNameLabel) ==
    [name |-> "csr-init", certificateManagement |-> cm, image |-> image,
     mountName |-> mountName, commonName |-> commonName, keyName |-> keyName,
     certName |-> certName, dnsNames |-> dnsNames,
     appNameLabel |-> appNameLabel]

\* csrClusterRoleBinding(name, namespace)
csrClusterRoleBinding(name, namespace) ==
    [kind |-> "ClusterRoleBinding",
     apiVersion |-> "rbac.authorization.k8s.io/v1",
     name |-> name \o ":csr-creator",
     roleRef |-> [apiGroup |-> "rbac.authorization.k8s.io",
                  kind |-> "ClusterRole", name |-> "tigera-operator:csr-creator"],
     subjects |-> <<[kind |-> "ServiceAccount", name |-> name,
                     namespace |-> namespace]>>]

\* podsecuritycontext.NewBaseContext()
NewBaseContext == "BaseContext"

\* yaml.Marshal(data): the text of the document; two texts are equal exactly
\* when the documents are
Marshal(data) == [yaml |-> data]

\* The outcome of one image lookup for an image set: the reference returned
\* and the error returned.
\* components.GetReference(components.ComponentDex, reg, path, is)
GetReference(reg, path, is) == is.dex

\* ResolveCSRInitImage(installation, is)
ResolveCSRInitImage(installation, is) == is.csr

(***************************************************************************)
(* The renderer: dexComponent and its methods.  A method that can write   *)
(* is an operator from the receiver (and the array behind the             *)
(* installation's toleration slice) to what it returns and what it        *)
(* leaves behind.                                                          *)
(***************************************************************************)
\* Dex(pullSecrets, openshift, installation, dexConfig, clusterDomain)
Dex(pullSecrets, openshift, installation, dexConfig, clusterDomain) ==
    [dexConfig     |-> dexConfig,
     pullSecrets   |-> pullSecrets,
     openshift     |-> openshift,
     installation  |-> installation,
     connector     |-> Connector(dexConfig),
     image         |-> "",
     csrInitImage  |-> "",
     clusterDomain |-> clusterDomain]

\* ResolveImages, had it looked the bootstrap image up whether or not certificate
\* management is enabled
ResolveImages_AlwaysResolvesCsr(self, is) ==
    LET main  == GetReference(self.installation.Registry,
                              self.installation.ImagePath, is)
        c1    == [self EXCEPT !.image = main.image]
        msgs1 == IF ~main.err.isNil THEN <<main.err.text>> ELSE <<>>
        cmOn  == self.installation.CertificateManagement # NilCM
        csr   == ResolveCSRInitImage(self.installation, is)
        c2    == [c1 EXCEPT !.csrInitImage = csr.image]
        msgs2 == IF ~csr.err.isNil THEN Append(msgs1, csr.err.text) ELSE msgs1
    IN  [self    |-> c2,
         lookups |-> <<"dex", "csr">>,
         err     |-> IF Len(msgs2) # 0 THEN Errorf(Join(msgs2)) ELSE NilError]

\* ResolveImages, had it kept the previous image when the main lookup fails
ResolveImages_KeepsImageOnError(self, is) ==
    LET main  == GetReference(self.installation.Registry,
                              self.installation.ImagePath, is)
        c1    == IF main.err.isNil THEN [self EXCEPT !.image = main.image]
                 ELSE self
        msgs1 == IF ~main.err.isNil THEN <<main.err.text>> ELSE <<>>
        cmOn  == self.installation.CertificateManagement # NilCM
        csr   == ResolveCSRInitImage(self.installation, is)
        c2    == IF cmOn THEN [c1 EXCEPT !.csrInitImage = csr.image] ELSE c1
        msgs2 == IF cmOn /\ ~csr.err.isNil
                 THEN Append(msgs1, csr.err.text) ELSE msgs1
    IN  [self    |-> c2,
         lookups |-> IF cmOn THEN <<"dex", "csr">> ELSE <<"dex">>,
         err     |-> IF Len(msgs2) # 0 THEN Errorf(Join(msgs2)) ELSE NilError]

\* (c *dexComponent) ResolveImages(is): the receiver afterwards, the lookups
\* performed, and the error returned
ResolveImages(self, is) ==
    LET main  == GetReference(self.installation.Registry,
                              self.installation.ImagePath, is)
        c1    == [self EXCEPT !.image = main.image]
        msgs1 == IF ~main.err.isNil THEN <<main.err.text>> ELSE <<>>
        cmOn  == self.installation.CertificateManagement # NilCM
        csr   == ResolveCSRInitImage(self.installation, is)
        c2    == IF cmOn THEN [c1 EXCEPT !.csrInitImage = csr.image] ELSE c1
        msgs2 == IF cmOn /\ ~csr.err.isNil
                 THEN Append(msgs1, csr.err.text) ELSE msgs1
    IN  [self    |-> c2,
         lookups |-> IF cmOn THEN <<"dex", "csr">> ELSE <<"dex">>,
         err     |-> IF Len(msgs2) # 0 THEN Errorf(Join(msgs2)) ELSE NilError]

\* (*dexComponent) SupportedOSType()
SupportedOSType(self) == OSTypeLinux

\* (c *dexComponent) Ready()
Ready(self) == TRUE

\* (c *dexComponent) serviceAccount()
serviceAccount(self) ==
    [kind |-> "ServiceAccount", apiVersion |-> "v1",
     name |-> DexObjectName, namespace |-> DexNamespace]

\* (c *dexComponent) clusterRole()
clusterRole(self) ==
    [kind |-> "ClusterRole", apiVersion |-> "rbac.authorization.k8s.io/v1",
     name |-> DexObjectName,
     rules |-> <<[apiGroups |-> <<"dex.coreos.com">>, resources |-> <<"*">>,
                  verbs |-> <<"*">>],
                 [apiGroups |-> <<"apiextensions.k8s.io">>,
                  resources |-> <<"customresourcedefinitions">>,
                  verbs |-> <<"create">>]>>]

\* (c *dexComponent) clusterRoleBinding()
clusterRoleBinding(self) ==
    [kind |-> "ClusterRoleBinding",
     apiVersion |-> "rbac.authorization.k8s.io/v1",
     name |-> DexObjectName,
     roleRef |-> [apiGroup |-> "rbac.authorization.k8s.io",
                  kind |-> "ClusterRole", name |-> DexObjectName],
     subjects |-> <<[kind |-> "ServiceAccount", name |-> DexObjectName,
                     namespace |-> DexNamespace]>>]

\* (c *dexComponent) probe()
probe(self) ==
    [httpGet |-> [path |-> "/dex/.well-known/openid-configuration",
                  port |-> DexPort, scheme |-> "HTTPS"],
     initialDelaySeconds |-> ProbeInitialDelaySeconds,
     periodSeconds |-> ProbePeriodSeconds]

\* initContainers, had the init container been added in every mode
initContainers_Always(self) ==
    <<CreateCSRInitContainer(self.installation.CertificateManagement,
          self.csrInitImage, "tls", DexObjectName, "tls.key", "tls.crt",
          GetServiceDNSNames(DexObjectName, DexNamespace, self.clusterDomain),
          DexNamespace)>>

\* the initContainers of deployment()
initContainers(self) ==
    LET cm == self.installation.CertificateManagement
    IN  IF cm # NilCM
        THEN <<CreateCSRInitContainer(cm, self.csrInitImage, "tls",
                   DexObjectName, "tls.key", "tls.crt",
                   GetServiceDNSNames(DexObjectName, DexNamespace,
                                      self.clusterDomain),
                   DexNamespace)>>
        ELSE <<>>

\* (c *dexComponent) deployment(): the object, and the array behind the
\* installation's toleration slice after the append
deployment(self, arr) ==
    LET tolerations == GoAppend(self.installation.ControlPlaneTolerations,
                                arr, TolerateMaster)
    IN  [arr |-> tolerations.arr,
         obj |->
           [kind |-> "Deployment", apiVersion |-> "apps/v1",
            name |-> DexObjectName, namespace |-> DexNamespace,
            labels |-> [k8sApp |-> DexObjectName],
            selector |-> [k8sApp |-> DexObjectName],
            replicas |-> replicas,
            strategy |-> "Recreate",
            template |->
              [name |-> DexObjectName, namespace |-> DexNamespace,
               labels |-> [k8sApp |-> DexObjectName],
               annotations |-> RequiredAnnotations(self.dexConfig),
               nodeSelector |-> self.installation.ControlPlaneNodeSelector,
               serviceAccountName |-> DexObjectName,
               tolerations |-> tolerations.elems,
               imagePullSecrets |-> GetReferenceList(self.pullSecrets),
               initContainers |-> initContainers(self),
               containers |->
                 <<[name |-> DexObjectName,
                    image |-> self.image,
                    env |-> RequiredEnv(self.dexConfig, ""),
                    livenessProbe |-> probe(self),
                    securityContext |-> NewBaseContext,
                    command |-> <<"/usr/local/bin/dex", "serve",
                                  "/etc/dex/baseCfg/config.yaml">>,
                    ports |-> <<[name |-> "https",
                                 containerPort |-> DexPort]>>,
                    volumeMounts |-> RequiredVolumeMounts(self.dexConfig)]>>,
               volumes |-> RequiredVolumes(self.dexConfig)]]]

\* (c *dexComponent) service()
service(self) ==
    [kind |-> "Service", apiVersion |-> "v1",
     name |-> DexObjectName, namespace |-> DexNamespace,
     selector |-> [k8sApp |-> DexObjectName],
     ports |-> <<[name |-> DexObjectName, port |-> DexPort,
                  targetPort |-> DexPort, protocol |-> "TCP"]>>]

\* redirectURIs, had it tested for "localhost" alone
redirectURIs_LocalhostOnly(host) ==
    LET fixed == <<RedirectLocalhostLogin, RedirectLoopbackLogin,
                   RedirectLocalhostKibana, RedirectLoopbackKibana>>
    IN  IF host # <<>> /\ ~Contains(host, StrLocalhost)
        THEN fixed \o <<SprintfS(host, LoginCallbackPath),
                        SprintfS(host, KibanaCallbackPath)>>
        ELSE fixed

\* the redirectURIs of configMap(), for the manager URI `host`
redirectURIs(host) ==
    LET fixed == <<RedirectLocalhostLogin, RedirectLoopbackLogin,
                   RedirectLocalhostKibana, RedirectLoopbackKibana>>
    IN  IF /\ host # <<>>
           /\ ~Contains(host, StrLocalhost)
           /\ ~Contains(host, StrLoopback)
        THEN fixed \o <<SprintfS(host, LoginCallbackPath),
                        SprintfS(host, KibanaCallbackPath)>>
        ELSE fixed

\* (c *dexComponent) configMap()
configMap(self) ==
    LET host == ManagerURI(self.dexConfig)
        data ==
          [issuer  |-> SprintfS(ManagerURI(self.dexConfig), DexIssuerPath),
           storage |-> [type |-> "kubernetes",
                        config |-> [inCluster |-> TRUE]],
           web |-> [https |-> "0.0.0.0:5556",
                    tlsCert |-> "/etc/dex/tls/tls.crt",
                    tlsKey |-> "/etc/dex/tls/tls.key",
                    allowedOrigins |-> <<"*">>,
                    discoveryAllowedOrigins |-> <<"*">>],
           connectors |-> <<self.connector>>,
           oauth2 |-> [skipApprovalScreen |-> TRUE,
                       responseTypes |-> <<"id_token", "code", "token">>],
           staticClients |->
             <<[id |-> DexClientId,
                redirectURIs |-> redirectURIs(host),
                name |-> "Calico Enterprise Manager",
                secretEnv |-> dexSecretEnv]>>]
    IN  [kind |-> "ConfigMap", apiVersion |-> "v1",
         name |-> DexObjectName, namespace |-> DexNamespace,
         data |-> [configYaml |-> Marshal(data)]]

\* objs, had the config map been left out
objs_NoConfigMap(self, dep) ==
    LET objs0 == <<serviceAccount(self), dep, service(self),
                   clusterRole(self), clusterRoleBinding(self)>>
        objs1 == objs0 \o ToRuntimeObjects(
                     RequiredSecrets(self.dexConfig, OperatorNamespace))
        objs2 == Append(objs1, CreateCertSecret(self.dexConfig))
        objs3 == objs2 \o ToRuntimeObjects(
                     RequiredSecrets(self.dexConfig, DexNamespace))
        objs4 == objs3 \o ToRuntimeObjects(
                     CopyToNamespace(DexNamespace, self.pullSecrets))
    IN  IF self.installation.CertificateManagement # NilCM
        THEN Append(objs4, csrClusterRoleBinding(DexObjectName, DexNamespace))
        ELSE objs4

\* objs, had the pull secrets been appended after the role binding of
\* certificate management
objs_PullSecretsLast(self, dep) ==
    LET objs0 == <<serviceAccount(self), dep, service(self),
                   clusterRole(self), clusterRoleBinding(self),
                   configMap(self)>>
        objs1 == objs0 \o ToRuntimeObjects(
                     RequiredSecrets(self.dexConfig, OperatorNamespace))
        objs2 == Append(objs1, CreateCertSecret(self.dexConfig))
        objs3 == objs2 \o ToRuntimeObjects(
                     RequiredSecrets(self.dexConfig, DexNamespace))
        objs4 == IF self.installation.CertificateManagement # NilCM
                 THEN Append(objs3,
                             csrClusterRoleBinding(DexObjectName, DexNamespace))
                 ELSE objs3
    IN  objs4 \o ToRuntimeObjects(
            CopyToNamespace(DexNamespace, self.pullSecrets))

\* the objs of Objects(), given the deployment
objs(self, dep) ==
    LET objs0 == <<serviceAccount(self), dep, service(self),
                   clusterRole(self), clusterRoleBinding(self),
                   configMap(self)>>
        objs1 == objs0 \o ToRuntimeObjects(
                     RequiredSecrets(self.dexConfig, OperatorNamespace))
        objs2 == Append(objs1, CreateCertSecret(self.dexConfig))
        objs3 == objs2 \o ToRuntimeObjects(
                     RequiredSecrets(self.dexConfig, DexNamespace))
        objs4 == objs3 \o ToRuntimeObjects(
                     CopyToNamespace(DexNamespace, self.pullSecrets))
    IN  IF self.installation.CertificateManagement # NilCM
        THEN Append(objs4, csrClusterRoleBinding(DexObjectName, DexNamespace))
        ELSE objs4

\* Objects, had it stored the appended toleration slice back into the
\* installation
Objects_KeepsAppendedTolerations(self, arr) ==
    LET dep == deployment(self, arr)
        s   == self.installation.ControlPlaneTolerations
        grown == [len |-> s.len + 1,
                  cap |-> IF s.len < s.cap THEN s.cap ELSE s.len + 1]
    IN  [create |-> objs(self, dep.obj), delete |-> <<>>,
         self |-> [self EXCEPT !.installation.ControlPlaneTolerations = grown],
         arr |-> IF s.len < s.cap THEN dep.arr ELSE Append(arr, TolerateMaster)]

\* Objects, had it rendered nothing until an image is resolved
Objects_RequiresImage(self, arr) ==
    LET dep == deployment(self, arr)
    IN  [create |-> IF self.image = "" THEN <<>> ELSE objs(self, dep.obj),
         delete |-> <<>>, self |-> self, arr |-> dep.arr]

\* Objects, had it asked for the role binding of certificate management to be
\* deleted when that mode is off
Objects_DeletesUnusedBinding(self, arr) ==
    LET dep == deployment(self, arr)
    IN  [create |-> objs(self, dep.obj),
         delete |-> IF self.installation.CertificateManagement = NilCM
                    THEN <<csrClusterRoleBinding(DexObjectName, DexNamespace)>>
                    ELSE <<>>,
         self |-> self, arr |-> dep.arr]

\* (c *dexComponent) Objects(): the two lists returned, the receiver and the
\* toleration array afterwards
Objects(self, arr) ==
    LET dep == deployment(self, arr)
    IN  [create |-> objs(self, dep.obj), delete |-> <<>>,
         self |-> self, arr |-> dep.arr]

(***************************************************************************)
(* The inputs the model draws from.                                        *)
(***************************************************************************)
Namespaces == {OperatorNamespace, DexNamespace}

\* the pull-secret lists a caller may pass, all living in the operator namespace
PullSecretLists ==
    {[i \in 1..n |-> Secret("pull-secret-" \o ToString(i), OperatorNamespace)] :
        n \in 0..MaxPullSecrets}

\* identity-provider stubs reporting one of the manager URIs `uris`
DexConfigs(uris) ==
    {[connector    |-> [type |-> "oidc", id |-> "oidc"],
      managerURI   |-> u,
      nSecrets     |-> n,
      certSecret   |-> Secret(DexTLSSecretName, OperatorNamespace),
      annotations  |-> [hash |-> "idp"],
      env          |-> <<"CLIENT_ID", "CLIENT_SECRET">>,
      volumeMounts |-> <<"secrets">>,
      volumes      |-> <<"secrets">>] :
        u \in uris, n \in [Namespaces -> 0..MaxIdpSecrets]}

\* a toleration slice of length len and capacity cap, and the array behind it:
\* the slice's elements, then whatever the spare capacity holds
TolerationSlices ==
    {[len |-> l, cap |-> k] : l \in 0..MaxTolerations, k \in 0..(MaxTolerations + 1)}

InitialArray(s) ==
    [i \in 1..s.cap |-> IF i <= s.len THEN "toleration-" \o ToString(i) ELSE "spare"]

Installations ==
    {[Registry |-> "", ImagePath |-> "",
      CertificateManagement |-> cm,
      ControlPlaneNodeSelector |-> [role |-> "control-plane"],
      ControlPlaneTolerations |-> s] :
        cm \in {NilCM, "cm"},
        s \in {t \in TolerationSlices : t.cap \in {t.len, t.len + 1}}}

\* error messages of a failed lookup: the texts over {e, %} of the given lengths
RECURSIVE Texts(_)
Texts(n) ==
    IF n = 0 THEN {<<>>}
    ELSE Texts(n - 1) \cup
         {Append(t, ch) : t \in {x \in Texts(n - 1) : Len(x) = n - 1},
                          ch \in {"e", "%"}}

\* what one lookup can return: a reference and no error, or no reference and
\* an error with one of the messages `msgs`
Outcomes(images, msgs) ==
    {[image |-> i, err |-> NilError] : i \in images} \cup
    {[image |-> "", err |-> [isNil |-> FALSE, text |-> m]] : m \in msgs}

\* image sets, by what the two lookups return for them
ImageSets(msgs) ==
    [dex : Outcomes({"dex:v1", "dex:v2"}, msgs), csr : Outcomes({"csr:v1"}, msgs)]

(***************************************************************************)
(* The state machine: a renderer is constructed, then its caller invokes  *)
(* the facade operations in any order.  ret is what the latest operation  *)
(* returned.  lastResolve, imageBefore, firstObjects and nObjects record   *)
(* the calls made so far: the latest ResolveImages call and the image      *)
(* field before it, and the first Objects() result and the number of       *)
(* Objects() calls since.                                                  *)
(***************************************************************************)
NoCall == [called |-> FALSE]

\* a renderer constructed from any of the given pull-secret lists,
\* installations and identity providers
InitWith(pullSecretLists, installations, dexConfigs) ==
    /\ \E p \in pullSecretLists, inst \in installations, d \in dexConfigs :
          /\ c = Dex(p, FALSE, inst, d, "cluster.local")
          /\ backing = InitialArray(inst.ControlPlaneTolerations)
    /\ ret = [op |-> "Dex"]
    /\ lastResolve = NoCall
    /\ imageBefore = ""
    /\ firstObjects = NoCall
    /\ nObjects = 0

ResolveImagesCall(is) ==
    LET r == ResolveImages(c, is)
    IN  /\ c' = r.self
        /\ ret' = [op |-> "ResolveImages", err |-> r.err]
        /\ lastResolve' = [called |-> TRUE, is |-> is, lookups |-> r.lookups,
                           err |-> r.err]
        /\ imageBefore' = c.image
        /\ firstObjects' = NoCall
        /\ nObjects' = 0
        /\ UNCHANGED backing

ObjectsCall ==
    LET r == Objects(c, backing)
        result == [called |-> TRUE, create |-> r.create, delete |-> r.delete]
    IN  /\ c' = r.self
        /\ backing' = r.arr
        /\ ret' = [op |-> "Objects", create |-> r.create, delete |-> r.delete]
        /\ firstObjects' = IF nObjects = 0 THEN result ELSE firstObjects
        /\ nObjects' = IF nObjects < MaxCalls THEN nObjects + 1 ELSE nObjects
        /\ UNCHANGED <<lastResolve, imageBefore>>

ReadyCall ==
    /\ ret' = [op |-> "Ready", value |-> Ready(c)]
    /\ UNCHANGED <<c, backing, lastResolve, imageBefore, firstObjects, nObjects>>

SupportedOSTypeCall ==
    /\ ret' = [op |-> "SupportedOSType", value |-> SupportedOSType(c)]
    /\ UNCHANGED <<c, backing, lastResolve, imageBefore, firstObjects, nObjects>>

\* Spec: every shape of configuration (certificate management, pull secrets,
\* provider secrets, toleration slices); lookups fail with one fixed message.
Init ==
    InitWith(PullSecretLists, Installations, DexConfigs({URIEmpty, URIManager}))

Next ==
    \/ \E is \in ImageSets({<<"e">>}) : ResolveImagesCall(is)
    \/ ObjectsCall
    \/ ReadyCall
    \/ SupportedOSTypeCall

Spec == Init /\ [][Next]_vars

\* The smallest configurations, with and without certificate management: no
\* pull secrets, no tolerations, no provider secrets.
SmallInstallations ==
    {inst \in Installations :
        inst.ControlPlaneTolerations = [len |-> 0, cap |-> 0]}

SmallDexConfigs(uris) ==
    {d \in DexConfigs(uris) : \A ns \in Namespaces : d.nSecrets[ns] = 0}

\* SpecURI: every manager URI, on the smallest configurations.
ManagerURIs ==
    {URIEmpty, URILocalhost, URILoopback, URIManager, URIUpperCase, URIEmbedded}

InitURI == InitWith({<<>>}, SmallInstallations, SmallDexConfigs(ManagerURIs))

SpecURI == InitURI /\ [][Next]_vars

\* SpecResolve: every error message of a failed lookup, on the smallest
\* configurations.
InitResolve == InitWith({<<>>}, SmallInstallations, SmallDexConfigs({URIManager}))

NextResolve ==
    \/ \E is \in ImageSets(Texts(MaxMsgLen)) : ResolveImagesCall(is)
    \/ ObjectsCall
    \/ ReadyCall
    \/ SupportedOSTypeCall

SpecResolve == InitResolve /\ [][NextResolve]_vars

(***************************************************************************)
(* Properties.                                                             *)
(***************************************************************************)
CMEnabled == c.installation.CertificateManagement # NilCM

Kinds(list) == [i \in 1..Len(list) |-> list[i].kind]

FixedKinds ==
    <<"ServiceAccount", "Deployment", "Service", "ClusterRole",
      "ClusterRoleBinding", "ConfigMap">>

\* the first six entries of a creation list are the fixed objects, in order
StartsWithFixedObjects(list) ==
    /\ Len(list) >= 6
    /\ SubSeq(Kinds(list), 1, 6) = FixedKinds
    /\ \A i \in 1..6 : list[i].name = DexObjectName

IsCSRBinding(obj) ==
    obj.kind = "ClusterRoleBinding" /\ obj.name # DexObjectName

\* the configuration of C1: no certificate management, no pull secrets, a
\* provider that requires no secrets in any namespace
MinimalConfiguration ==
    /\ ~CMEnabled
    /\ c.pullSecrets = <<>>
    /\ \A ns \in Namespaces : RequiredSecrets(c.dexConfig, ns) = <<>>

\* C1 as claimed: for the minimal configuration the creation list returned by
\* Objects() has exactly the six fixed objects, in order, and nothing after them.
C1_SixObjects ==
    (ret.op = "Objects" /\ MinimalConfiguration) =>
        /\ Len(ret.create) = 6
        /\ StartsWithFixedObjects(ret.create)

\* C1 as amended: for the minimal configuration the creation list returned by
\* Objects() has exactly seven entries: the six fixed objects, in order, then
\* the certificate secret returned by CreateCertSecret(), and nothing after it.
C1_SevenObjects ==
    (ret.op = "Objects" /\ MinimalConfiguration) =>
        /\ Len(ret.create) = 7
        /\ StartsWithFixedObjects(ret.create)
        /\ ret.create[7] = CreateCertSecret(c.dexConfig)

C1_Witness == ret.op = "Objects" /\ MinimalConfiguration

\* C2: every creation list returned by Objects() is the six fixed objects, then
\* the provider's secrets for the operator namespace, then the certificate
\* secret, then the provider's secrets for the Dex namespace, then the pull
\* secrets copied into the Dex namespace, then, with certificate management
\* enabled and only then, the certificate-signing-request role binding as the
\* last element.
C2_Layout ==
    ret.op = "Objects" =>
        LET list == ret.create
            sOp  == RequiredSecrets(c.dexConfig, OperatorNamespace)
            sDex == RequiredSecrets(c.dexConfig, DexNamespace)
            n1   == Len(sOp)
            n2   == Len(sDex)
            np   == Len(c.pullSecrets)
            tail == IF CMEnabled THEN 1 ELSE 0
        IN  /\ Len(list) = 6 + n1 + 1 + n2 + np + tail
            /\ StartsWithFixedObjects(list)
            /\ SubSeq(list, 7, 6 + n1) = sOp
            /\ \A i \in 7..(6 + n1) : list[i].namespace = OperatorNamespace
            /\ list[7 + n1] = CreateCertSecret(c.dexConfig)
            /\ SubSeq(list, 8 + n1, 7 + n1 + n2) = sDex
            /\ \A i \in 1..np :
                   LET copy == list[7 + n1 + n2 + i]
                   IN  /\ copy.kind = "Secret"
                       /\ copy.name = c.pullSecrets[i].name
                       /\ copy.data = c.pullSecrets[i].data
                       /\ copy.namespace = DexNamespace
            /\ CMEnabled => IsCSRBinding(list[Len(list)])
            /\ \A i \in 1..(Len(list) - tail) : ~IsCSRBinding(list[i])

C2_Witness ==
    /\ ret.op = "Objects"
    /\ CMEnabled
    /\ c.pullSecrets # <<>>
    /\ RequiredSecrets(c.dexConfig, OperatorNamespace) # <<>>
    /\ RequiredSecrets(c.dexConfig, DexNamespace) = <<>>
    /\ IsCSRBinding(ret.create[Len(ret.create)])

\* the renderer with certificate management switched to cm, all else equal
WithCertificateManagement(self, cm) ==
    [self EXCEPT !.installation.CertificateManagement = cm]

\* C3: the creation list of Objects() with certificate management enabled and
\* the one with it disabled, all else equal, differ in exactly this: enabled,
\* the deployment has one init container and the list ends with one more
\* object, the certificate-signing-request role binding; disabled, the
\* deployment has no init container and the list holds no such binding.
C3_ToggleChangesOnlyInitContainerAndBinding ==
    ret.op = "Objects" =>
        LET other == Objects(WithCertificateManagement(c,
                         IF CMEnabled THEN NilCM ELSE "cm"), backing).create
            on    == IF CMEnabled THEN ret.create ELSE other
            off   == IF CMEnabled THEN other ELSE ret.create
        IN  /\ Len(on[2].template.initContainers) = 1
            /\ Len(off[2].template.initContainers) = 0
            /\ Len(on) = Len(off) + 1
            /\ IsCSRBinding(on[Len(on)])
            /\ \A i \in 1..Len(off) : ~IsCSRBinding(off[i])
            /\ \A i \in 1..Len(off) : i # 2 => on[i] = off[i]
            /\ [on[2] EXCEPT !.template.initContainers = <<>>] = off[2]

C3_Witness ==
    /\ ret.op = "Objects"
    /\ CMEnabled
    /\ lastResolve.called
    /\ c.image # ""
    /\ c.pullSecrets # <<>>
    /\ Len(ret.create[2].template.initContainers) = 1

\* the redirect URIs of the config document in a creation list
RenderedRedirectURIs(list) ==
    list[6].data.configYaml.yaml.staticClients[1].redirectURIs

\* C4: the redirect URIs of the rendered config document begin with the four
\* fixed callback URLs; there are exactly four when the manager URI is empty
\* or contains "localhost" or "127.0.0.1", and otherwise exactly six, the fifth
\* and sixth being the manager URI followed by the two callback paths.
C4_RedirectURIs ==
    ret.op = "Objects" =>
        LET uris == RenderedRedirectURIs(ret.create)
            host == ManagerURI(c.dexConfig)
        IN  /\ Len(uris) \in {4, 6}
            /\ SubSeq(uris, 1, 4) =
                   <<RedirectLocalhostLogin, RedirectLoopbackLogin,
                     RedirectLocalhostKibana, RedirectLoopbackKibana>>
            /\ (host = <<>> \/ Contains(host, StrLocalhost)
                   \/ Contains(host, StrLoopback)) => Len(uris) = 4
            /\ ~(host = <<>> \/ Contains(host, StrLocalhost)
                   \/ Contains(host, StrLoopback)) =>
                   /\ Len(uris) = 6
                   /\ uris[5] = host \o LoginCallbackPath
                   /\ uris[6] = host \o KibanaCallbackPath
            /\ host \in {URIEmpty, URILocalhost, URILoopback, URIEmbedded}
                   => Len(uris) = 4
            /\ host \in {URIManager, URIUpperCase} => Len(uris) = 6

C4_Witness ==
    /\ ret.op = "Objects"
    /\ ManagerURI(c.dexConfig) = URIManager
    /\ Len(RenderedRedirectURIs(ret.create)) = 6

\* the messages of the lookups of the latest ResolveImages call that failed,
\* main lookup first
FailedMessages ==
    LET main == GetReference(c.installation.Registry, c.installation.ImagePath,
                             lastResolve.is)
        csr  == ResolveCSRInitImage(c.installation, lastResolve.is)
    IN  (IF ~main.err.isNil THEN <<main.err.text>> ELSE <<>>) \o
        (IF "csr" \in {lastResolve.lookups[i] :
                          i \in 1..Len(lastResolve.lookups)} /\ ~csr.err.isNil
         THEN <<csr.err.text>> ELSE <<>>)

C6_ObjectsIdempotent ==
    (ret.op = "Objects" /\ firstObjects.called) =>
        /\ ret.create = firstObjects.create
        /\ ret.delete = firstObjects.delete

\* a later Objects() call, on an installation whose toleration slice has spare
\* capacity, which the first call wrote into
C6_Witness ==
    /\ ret.op = "Objects"
    /\ nObjects >= 2
    /\ c.installation.ControlPlaneTolerations.len
           < c.installation.ControlPlaneTolerations.cap
    /\ backing # InitialArray(c.installation.ControlPlaneTolerations)

\* the image of the main container of the deployment in a creation list
RenderedImage(list) == list[2].template.containers[1].image

\* C7: Objects() returns the full creation list in every state: on a renderer
\* no ResolveImages call was made on, with an empty main-container image and,
\* under certificate management, an empty image in the init container; and
\* after a ResolveImages call that returned an error.
C7_ObjectsNeverFails ==
    ret.op = "Objects" =>
        /\ StartsWithFixedObjects(ret.create)
        /\ Len(ret.create) >= 7
        /\ RenderedImage(ret.create) = c.image
        /\ ~lastResolve.called =>
               /\ RenderedImage(ret.create) = ""
               /\ CMEnabled =>
                      /\ Len(ret.create[2].template.initContainers) = 1
                      /\ ret.create[2].template.initContainers[1].image = ""
        /\ (lastResolve.called /\ ~lastResolve.err.isNil) =>
               Len(ret.create) =
                   7 + Len(RequiredSecrets(c.dexConfig, OperatorNamespace))
                     + Len(RequiredSecrets(c.dexConfig, DexNamespace))
                     + Len(c.pullSecrets) + (IF CMEnabled THEN 1 ELSE 0)

C7_Witness ==
    /\ ret.op = "Objects"
    /\ ~lastResolve.called
    /\ CMEnabled
    /\ RenderedImage(ret.create) = ""

\* Objects() called after a ResolveImages call that returned an error
C7_AfterFailedResolve ==
    /\ ret.op = "Objects"
    /\ lastResolve.called
    /\ ~lastResolve.err.isNil

\* C8: the deletion list returned by Objects() is empty, whatever the
\* configuration and whatever calls came before, so no object is in both lists.
C8_NothingToDelete ==
    ret.op = "Objects" =>
        /\ ret.delete = <<>>
        /\ \A i \in 1..Len(ret.create), j \in 1..Len(ret.delete) :
               ret.create[i] # ret.delete[j]

C8_Witness ==
    /\ ret.op = "Objects"
    /\ lastResolve.called
    /\ nObjects >= 2
    /\ ~CMEnabled

\* the fields of the renderer other than the two image fields
OtherFields(self) ==
    <<self.dexConfig, self.pullSecrets, self.openshift, self.installation,
      self.connector, self.clusterDomain>>

\* C9: Objects(), Ready() and SupportedOSType() leave every field of the
\* renderer as it was; ResolveImages changes no field but image and
\* csrInitImage, and with certificate management disabled it performs the
\* main lookup alone and leaves csrInitImage as it was.
C9_OnlyResolveImagesWrites ==
    [][/\ ret'.op \in {"Objects", "Ready", "SupportedOSType"} => c' = c
       /\ ret'.op = "ResolveImages" =>
              /\ OtherFields(c') = OtherFields(c)
              /\ ~CMEnabled =>
                     /\ c'.csrInitImage = c.csrInitImage
                     /\ lastResolve'.lookups = <<"dex">>]_vars

\* a ResolveImages call with certificate management disabled, for an image set
\* whose bootstrap lookup would have returned an image
C9_Witness ==
    /\ ret.op = "ResolveImages"
    /\ ~CMEnabled
    /\ ResolveCSRInitImage(c.installation, lastResolve.is).image # ""
    /\ c.csrInitImage = ""
    /\ c.image # ""

\* C10: the main-container image rendered by Objects() is what the main lookup
\* of the latest ResolveImages call returned, whether that call returned an
\* error or not.
C10_ImageOfLatestResolve ==
    (ret.op = "Objects" /\ lastResolve.called) =>
        RenderedImage(ret.create) =
            GetReference(c.installation.Registry, c.installation.ImagePath,
                         lastResolve.is).image

\* Objects() after a failed ResolveImages call that followed a successful one:
\* the image resolved before is gone
C10_Witness ==
    /\ ret.op = "Objects"
    /\ lastResolve.called
    /\ ~lastResolve.is.dex.err.isNil
    /\ imageBefore # ""
    /\ RenderedImage(ret.create) = ""
====
